---------------------------- MODULE Spec2Model ----------------------------
(***************************************************************************)
(* A model of the pms-7003 driver: the frame codec (create_command,        *)
(* OutputFrame::from_buffer) of src/src/lib.rs, the resynchronising        *)
(* reader ReadStateMachine of src/src/read_fsm.rs, and the sensor          *)
(* operations of Pms7003Sensor that compose them over a byte transport.    *)
(*                                                                         *)
(* Bytes are naturals 0..255, u16 values naturals 0..65535.  A Rust slice  *)
(* is a sequence; a 0-based offset off of the source is position off+1.    *)
(***************************************************************************)
EXTENDS Naturals, Sequences, FiniteSets

(***************************************************************************)
(* Program constants (src/src/lib.rs:9-20).                                *)
(***************************************************************************)
CMD_FRAME_SIZE == 7
OUTPUT_FRAME_SIZE == 32
RESPONSE_FRAME_SIZE == 8
CHECKSUM_SIZE == 2
MN1 == 66
MN2 == 66
NEW_RETRIES == 100

(***************************************************************************)
(* Bounds of the model.                                                    *)
(***************************************************************************)
\* the longest target buffer handed to a test state machine
MaxLen == 4
\* the largest retry budget handed to a test state machine
MaxRetries == 2
\* the number of update calls of one test run
MaxSteps == 6
\* the number of sensor operations called in one run
MaxCalls == 2

(***************************************************************************)
(* The values of the wire format that the claims name (not read by the     *)
(* code: the code only knows MN1 and MN2).                                 *)
(***************************************************************************)
WIRE_HEADER1 == 66
WIRE_HEADER2 == 77

\* the bytes the transport delivers in the model: noise/payload 0x00 and the
\* two header values of the wire format, 0x42 and 0x4D
Bytes == {0, WIRE_HEADER1, WIRE_HEADER2}

(***************************************************************************)
(* scroll's Pwrite/Pread at a 0-based offset, big-endian for u16.          *)
(***************************************************************************)
gwrite_u8(buffer, offset, v) == [buffer EXCEPT ![offset + 1] = v]

gwrite_u16_be(buffer, offset, v) ==
    [buffer EXCEPT ![offset + 1] = v \div 256, ![offset + 2] = v % 256]

gread_u8(buffer, offset) == buffer[offset + 1]

gread_u16_be(buffer, offset) == buffer[offset + 1] * 256 + buffer[offset + 2]

\* buffer.iter().take(n).map(|b| *b as _).sum(), before any truncation
RECURSIVE SumTake(_, _)
SumTake(buffer, n) == IF n = 0 THEN 0 ELSE SumTake(buffer, n - 1) + buffer[n]

\* the width of a u16 accumulator
U16(n) == n % 65536

(***************************************************************************)
(* create_command (src/src/lib.rs:115-134).                                *)
(***************************************************************************)
\* (a variant that writes the checksum little-endian)
create_command_le(cmd, data) ==
    LET b0 == [i \in 1..CMD_FRAME_SIZE |-> 0]
        b1 == gwrite_u8(b0, 0, MN1)
        b2 == gwrite_u8(b1, 1, MN2)
        b3 == gwrite_u8(b2, 2, cmd)
        b4 == gwrite_u16_be(b3, 3, data)
        checksum == U16(SumTake(b4, CMD_FRAME_SIZE - CHECKSUM_SIZE))
    IN  [b4 EXCEPT ![6] = checksum % 256, ![7] = checksum \div 256]

create_command(cmd, data) ==
    LET b0 == [i \in 1..CMD_FRAME_SIZE |-> 0]
        b1 == gwrite_u8(b0, 0, MN1)
        b2 == gwrite_u8(b1, 1, MN2)
        b3 == gwrite_u8(b2, 2, cmd)
        b4 == gwrite_u16_be(b3, 3, data)
        checksum == U16(SumTake(b4, CMD_FRAME_SIZE - CHECKSUM_SIZE))
    IN  gwrite_u16_be(b4, 5, checksum)

(***************************************************************************)
(* OutputFrame::from_buffer (src/src/lib.rs:159-193): the sum is a usize   *)
(* (never truncated), the 17 fields are read in order, and the record is   *)
(* returned only when the sum equals the decoded check field.              *)
(***************************************************************************)
DecodeFrame(buffer) ==
    [start1       |-> gread_u8(buffer, 0),
     start2       |-> gread_u8(buffer, 1),
     frame_length |-> gread_u16_be(buffer, 2),
     pm1_0        |-> gread_u16_be(buffer, 4),
     pm2_5        |-> gread_u16_be(buffer, 6),
     pm10         |-> gread_u16_be(buffer, 8),
     pm1_0_atm    |-> gread_u16_be(buffer, 10),
     pm2_5_atm    |-> gread_u16_be(buffer, 12),
     pm10_atm     |-> gread_u16_be(buffer, 14),
     beyond_0_3   |-> gread_u16_be(buffer, 16),
     beyond_0_5   |-> gread_u16_be(buffer, 18),
     beyond_1_0   |-> gread_u16_be(buffer, 20),
     beyond_2_5   |-> gread_u16_be(buffer, 22),
     beyond_5_0   |-> gread_u16_be(buffer, 24),
     beyond_10_0  |-> gread_u16_be(buffer, 26),
     reserved     |-> gread_u16_be(buffer, 28),
     check        |-> gread_u16_be(buffer, 30)]

\* (a variant that sums the checksum bytes too)
from_buffer_sum_all(buffer) ==
    LET sum   == SumTake(buffer, OUTPUT_FRAME_SIZE)
        frame == DecodeFrame(buffer)
    IN  IF sum # frame.check
        THEN [tag |-> "Err", err |-> "ChecksumError"]
        ELSE [tag |-> "Ok", frame |-> frame]

from_buffer(buffer) ==
    LET sum   == SumTake(buffer, OUTPUT_FRAME_SIZE - CHECKSUM_SIZE)
        frame == DecodeFrame(buffer)
    IN  IF sum # frame.check
        THEN [tag |-> "Err", err |-> "ChecksumError"]
        ELSE [tag |-> "Ok", frame |-> frame]

(***************************************************************************)
(* ReadStateMachine (src/src/read_fsm.rs).  A machine is a record of the   *)
(* struct's four fields; panicked records that an index into the buffer    *)
(* was out of bounds, which ends the thread that called update.  A read    *)
(* result is <<"Ok", byte>>, <<"Err", "WouldBlock">> or <<"Err", "Other">>.*)
(***************************************************************************)
InProgressStates ==
    {"WaitingForFirstMagicNumber", "WaitingForSecondMagicNumber", "Reading"}

TerminalStates == {"Finished", "Failed"}

ReadResults ==
    {<<"Ok", b>> : b \in Bytes} \cup {<<"Err", "WouldBlock">>, <<"Err", "Other">>}

IsOk(read_result) == read_result[1] = "Ok"

ZeroBuffer(len) == [i \in 1..len |-> 0]

\* ReadStateMachine::new (read_fsm.rs:30-37)
ReadStateMachine_new(buffer) ==
    [buffer |-> buffer, index |-> 0, state |-> "WaitingForFirstMagicNumber",
     retries |-> NEW_RETRIES, panicked |-> FALSE]

\* tests::create_test_fsm (read_fsm.rs:94-101)
create_test_fsm(buffer, retries) ==
    [buffer |-> buffer, index |-> 0, state |-> "WaitingForFirstMagicNumber",
     retries |-> retries, panicked |-> FALSE]

\* retry (read_fsm.rs:39-45)
\* (a variant that fails with one retry left)
retry_off_by_one(m) ==
    IF m.retries <= 1
    THEN [m EXCEPT !.state = "Failed"]
    ELSE [m EXCEPT !.retries = @ - 1]

\* (a variant without the test for zero, whose counter wraps)
retry_wraps(m) ==
    [m EXCEPT !.retries = IF @ = 0 THEN NEW_RETRIES ELSE @ - 1]

retry(m) ==
    IF m.retries = 0
    THEN [m EXCEPT !.state = "Failed"]
    ELSE [m EXCEPT !.retries = @ - 1]

\* magic_number_read (read_fsm.rs:47-52)
\* (a variant that does not store the header)
magic_number_read_no_header(m) ==
    [m EXCEPT !.index = 2, !.state = "Reading"]

\* magic_number_read that gives the attempt a new retry budget
magic_number_read_resets_budget(m) ==
    IF Len(m.buffer) < 2
    THEN [m EXCEPT !.index = 2, !.panicked = TRUE]
    ELSE [m EXCEPT !.index = 2,
                   !.buffer = [@ EXCEPT ![1] = MN1, ![2] = MN2],
                   !.state = "Reading",
                   !.retries = NEW_RETRIES]

magic_number_read(m) ==
    IF Len(m.buffer) < 2
    THEN [m EXCEPT !.index = 2, !.panicked = TRUE]
    ELSE [m EXCEPT !.index = 2,
                   !.buffer = [@ EXCEPT ![1] = MN1, ![2] = MN2],
                   !.state = "Reading"]

\* byte_read (read_fsm.rs:54-60)
byte_read(m, byte) ==
    IF m.index >= Len(m.buffer)
    THEN [m EXCEPT !.panicked = TRUE]
    ELSE LET w == [m EXCEPT !.buffer = [@ EXCEPT ![m.index + 1] = byte],
                            !.index = @ + 1]
         IN  IF w.index = Len(w.buffer)
             THEN [w EXCEPT !.state = "Finished"]
             ELSE w

\* update, the first match: the transition (read_fsm.rs:62-78)
\* (a variant whose last arm retries on a not-ready signal or fault)
update_terminal_retries(m, read_result) ==
    CASE m.state = "WaitingForFirstMagicNumber" ->
           IF IsOk(read_result) /\ read_result[2] = MN1
           THEN [m EXCEPT !.state = "WaitingForSecondMagicNumber"]
           ELSE retry(m)
      [] m.state = "WaitingForSecondMagicNumber" ->
           IF IsOk(read_result) /\ read_result[2] = MN2
           THEN magic_number_read(m)
           ELSE IF IsOk(read_result)
                THEN [m EXCEPT !.state = "WaitingForFirstMagicNumber"]
                ELSE retry(m)
      [] m.state = "Reading" ->
           IF IsOk(read_result)
           THEN byte_read(m, read_result[2])
           ELSE retry(m)
      [] OTHER -> IF IsOk(read_result) THEN m ELSE retry(m)

\* (a variant that starts the frame again when interrupted while Reading)
update_restart_on_error(m, read_result) ==
    CASE m.state = "WaitingForFirstMagicNumber" ->
           IF IsOk(read_result) /\ read_result[2] = MN1
           THEN [m EXCEPT !.state = "WaitingForSecondMagicNumber"]
           ELSE retry(m)
      [] m.state = "WaitingForSecondMagicNumber" ->
           IF IsOk(read_result) /\ read_result[2] = MN2
           THEN magic_number_read(m)
           ELSE IF IsOk(read_result)
                THEN [m EXCEPT !.state = "WaitingForFirstMagicNumber"]
                ELSE retry(m)
      [] m.state = "Reading" ->
           IF IsOk(read_result)
           THEN byte_read(m, read_result[2])
           ELSE [retry(m) EXCEPT !.state =
                    IF @ = "Failed" THEN @ ELSE "WaitingForFirstMagicNumber"]
      [] OTHER -> m

update(m, read_result) ==
    CASE m.state = "WaitingForFirstMagicNumber" ->
           IF IsOk(read_result) /\ read_result[2] = MN1
           THEN [m EXCEPT !.state = "WaitingForSecondMagicNumber"]
           ELSE retry(m)
      [] m.state = "WaitingForSecondMagicNumber" ->
           IF IsOk(read_result) /\ read_result[2] = MN2
           THEN magic_number_read(m)
           ELSE IF IsOk(read_result)
                THEN [m EXCEPT !.state = "WaitingForFirstMagicNumber"]
                ELSE retry(m)
      [] m.state = "Reading" ->
           IF IsOk(read_result)
           THEN byte_read(m, read_result[2])
           ELSE retry(m)
      [] OTHER -> m

\* update, the second match: the ReadStatus returned (read_fsm.rs:80-86)
ReadStatus(m) ==
    IF m.state \in InProgressStates THEN "InProgress" ELSE m.state

(***************************************************************************)
(* The state.                                                              *)
(*   codec     a call of a codec function: its input and, once it has      *)
(*             returned, its output                                        *)
(*   fsm       the ReadStateMachine of the current read attempt            *)
(*   status    the ReadStatus its last update returned ("None" before      *)
(*             the first call, "Panicked" when the call did not return)    *)
(*   fed       the read results a test passed to update so far, in order   *)
(*   past      the machine as it was before each of those calls            *)
(*   resynced  whether the last update moved the machine from awaiting     *)
(*             the second magic number back to awaiting the first          *)
(*   op        the sensor operation in progress, or the last one called    *)
(*   pc        where that operation is: "new" (in the constructor's flush  *)
(*             loop), "send_cmd" (writing the command),                    *)
(*             "read_from_device" (in the read loop) or "idle" (returned)  *)
(*   cmd       the command frame the operation sends                       *)
(*   tx        the bytes the operation has written to the transport        *)
(*   rx        the read results the transport still holds, in order; when  *)
(*             it holds none a read answers WouldBlock                     *)
(*   line      "script" when reads are answered from rx, "any" when the    *)
(*             transport may answer each read with any result, "zeros"     *)
(*             when it answers every read with the byte 0                  *)
(*   result    what the last operation returned                            *)
(*   calls     the number of operations called so far                      *)
(*   rx0       what the transport held when the operation was called       *)
(*   written   the outcome of the operation's last serial.write ("None"    *)
(*             before its first)                                           *)
(*   log       the results of the operations that have returned, in order  *)
(***************************************************************************)
VARIABLES codec, fsm, status, fed, past, resynced,
          op, pc, cmd, tx, rx, line, result, calls, rx0, written, log

vars == <<codec, fsm, status, fed, past, resynced,
          op, pc, cmd, tx, rx, line, result, calls, rx0, written, log>>

testVars == <<fed, past>>

sensorVars == <<op, pc, cmd, tx, rx, line, result, calls, rx0, written, log>>

NoMachine == create_test_fsm(<<>>, 0)

NoCall == [call |-> [fn |-> "none"], done |-> FALSE]

NoResult == [tag |-> "None"]

IdleSensor ==
    /\ op = "none"
    /\ pc = "idle"
    /\ cmd = <<>>
    /\ tx = <<>>
    /\ rx = <<>>
    /\ line = "script"
    /\ result = NoResult
    /\ calls = 0
    /\ rx0 = <<>>
    /\ written = "None"
    /\ log = <<>>

(***************************************************************************)
(* The codec applied to inputs drawn from bounded sets.                    *)
(***************************************************************************)
\* the three opcodes of the driver and the extremes of a u8
Opcodes == {0, 225, 226, 228, 255}

\* data values that exercise both bytes of the u16
DataValues == {0, 1, 255, 256, 43981, 65535}

\* the telemetry frame of tests/integration.rs:22-25
StatusFrame ==
    <<66, 77, 0, 28, 0, 5, 0, 7, 0, 7, 0, 5, 0, 7, 0, 7,
      0, 0, 0, 0, 0, 0, 0, 0, 0, 0, 0, 0, 151, 0, 1, 104>>

\* the frame of largest sum: thirty bytes 0xFF and their sum 0x1DE2
FullFrame == [i \in 1..OUTPUT_FRAME_SIZE |->
                 IF i <= 30 THEN 255 ELSE IF i = 31 THEN 29 ELSE 226]

PatchValues == {0, 1, 105, 255}

\* each base frame with up to two bytes overwritten
FrameInputs ==
    {[[base EXCEPT ![p1] = v1] EXCEPT ![p2] = v2] :
        base \in {StatusFrame, FullFrame},
        p1 \in 1..OUTPUT_FRAME_SIZE, v1 \in PatchValues,
        p2 \in (OUTPUT_FRAME_SIZE - 3)..OUTPUT_FRAME_SIZE, v2 \in PatchValues}

\* the codec calls of the model: a function and its input
CodecCalls ==
    {[fn |-> "create_command", cmd |-> c, data |-> data] :
        c \in Opcodes, data \in DataValues}
    \cup {[fn |-> "from_buffer", buffer |-> buffer] : buffer \in FrameInputs}

InitCodec ==
    /\ \E call \in CodecCalls : codec = [call |-> call, done |-> FALSE]
    /\ fsm = NoMachine
    /\ status = "None"
    /\ fed = <<>>
    /\ past = <<>>
    /\ resynced = FALSE
    /\ IdleSensor

CallCreateCommand ==
    /\ ~codec.done
    /\ codec.call.fn = "create_command"
    /\ codec' = [call |-> codec.call, done |-> TRUE,
                 out |-> create_command(codec.call.cmd, codec.call.data)]
    /\ UNCHANGED <<fsm, status, resynced, testVars, sensorVars>>

CallFromBuffer ==
    /\ ~codec.done
    /\ codec.call.fn = "from_buffer"
    /\ codec' = [call |-> codec.call, done |-> TRUE,
                 out |-> from_buffer(codec.call.buffer)]
    /\ UNCHANGED <<fsm, status, resynced, testVars, sensorVars>>

NextCodec == CallCreateCommand \/ CallFromBuffer

SpecCodec == InitCodec /\ [][NextCodec]_vars

(***************************************************************************)
(* The state machine driven as the unit tests of read_fsm.rs drive it:     *)
(* create_test_fsm on a zeroed buffer with a chosen retry budget, then     *)
(* update called with one read result after another (read_sequence and     *)
(* the direct calls of the tests), whatever the status it returned.        *)
(***************************************************************************)
Init ==
    /\ codec = NoCall
    /\ \E len \in 2..MaxLen, retries \in 0..MaxRetries :
          fsm = create_test_fsm(ZeroBuffer(len), retries)
    /\ status = "None"
    /\ fed = <<>>
    /\ past = <<>>
    /\ resynced = FALSE
    /\ IdleSensor

CallUpdate ==
    /\ Len(fed) < MaxSteps
    /\ ~fsm.panicked
    /\ \E read_result \in ReadResults :
          /\ fsm' = update(fsm, read_result)
          /\ fed' = Append(fed, read_result)
    /\ past' = Append(past, fsm)
    /\ resynced' = (/\ fsm.state = "WaitingForSecondMagicNumber"
                    /\ fsm'.state = "WaitingForFirstMagicNumber")
    /\ status' = IF fsm'.panicked THEN "Panicked" ELSE ReadStatus(fsm')
    /\ UNCHANGED <<codec, sensorVars>>

Next == CallUpdate

Spec == Init /\ [][Next]_vars

(***************************************************************************)
(* Pms7003Sensor (src/src/lib.rs:39-113) over a byte transport.            *)
(***************************************************************************)
PASSIVE_MODE_RESPONSE == <<MN1, MN1, 0, 4, 225, 0, 1, 116>>

ACTIVE_MODE_RESPONSE == <<MN1, MN2, 0, 4, 225, 1, 1, 117>>

SLEEP_RESPONSE == <<MN1, MN2, 0, 4, 228, 0, 1, 119>>

\* the operations that send a command, and those that then await a response
CommandOps == {"sleep", "wake", "passive", "active", "request"}

\* ResponseOps with wake awaiting an acknowledgement as well
ResponseOps_with_wake == {"sleep", "wake", "passive", "active"}

ResponseOps == {"sleep", "passive", "active"}

\* the command each operation builds (lib.rs:74, 79, 84, 90, 96)
CommandOf(o) ==
    CASE o = "sleep"   -> create_command(228, 0)
      [] o = "wake"    -> create_command(228, 1)
      [] o = "passive" -> create_command(225, 0)
      [] o = "active"  -> create_command(225, 1)
      [] o = "request" -> create_command(226, 0)

\* the response each operation expects (lib.rs:75, 85, 91)
ExpectedResponse(o) ==
    CASE o = "sleep"   -> SLEEP_RESPONSE
      [] o = "passive" -> PASSIVE_MODE_RESPONSE
      [] o = "active"  -> ACTIVE_MODE_RESPONSE

\* serial.read(): the results the transport may give and what it holds after
SerialRead ==
    CASE line = "any"   -> {<<r, rx>> : r \in ReadResults}
      [] line = "zeros" -> {<<<<"Ok", 0>>, rx>>}
      [] OTHER -> IF rx = <<>>
                  THEN {<<<<"Err", "WouldBlock">>, rx>>}
                  ELSE {<<Head(rx), Tail(rx)>>}

\* ReturnOf with receive_response accepting whatever frame was read
ReturnOf_any_response(o, m) ==
    IF m.state = "Failed"
    THEN [tag |-> "Err", err |-> "ReadFailed"]
    ELSE CASE o = "read" -> from_buffer(m.buffer)
           [] o \in ResponseOps -> [tag |-> "Ok"]
           [] OTHER -> [tag |-> "Ok", buffer |-> m.buffer]

\* what the operation returns once the read loop has ended
\* (lib.rs:61-62, 70, 107-111)
ReturnOf(o, m) ==
    IF m.state = "Failed"
    THEN [tag |-> "Err", err |-> "ReadFailed"]
    ELSE CASE o = "read" -> from_buffer(m.buffer)
           [] o \in ResponseOps ->
                IF m.buffer # ExpectedResponse(o)
                THEN [tag |-> "Err", err |-> "IncorrectResponse"]
                ELSE [tag |-> "Ok"]
           [] OTHER -> [tag |-> "Ok", buffer |-> m.buffer]

\* Call with read going on with the machine of the attempt before
Call_keeps_machine ==
    /\ pc = "idle"
    /\ calls < MaxCalls
    /\ \E o \in CommandOps \cup {"read"} :
          /\ op' = o
          /\ IF o = "read"
             THEN /\ pc' = "read_from_device"
                  /\ fsm' = IF fsm = NoMachine
                            THEN ReadStateMachine_new(
                                     ZeroBuffer(OUTPUT_FRAME_SIZE))
                            ELSE [fsm EXCEPT
                                   !.buffer = ZeroBuffer(OUTPUT_FRAME_SIZE),
                                   !.state = "WaitingForFirstMagicNumber"]
                  /\ cmd' = <<>>
             ELSE /\ pc' = "send_cmd"
                  /\ fsm' = fsm
                  /\ cmd' = CommandOf(o)
    /\ tx' = <<>>
    /\ status' = "None"
    /\ result' = NoResult
    /\ calls' = calls + 1
    /\ rx0' = rx
    /\ written' = "None"
    /\ UNCHANGED <<codec, resynced, testVars, rx, line, log>>

\* a public operation is called: read starts its read attempt, the others
\* build their command (lib.rs:69-97)
Call ==
    /\ pc = "idle"
    /\ calls < MaxCalls
    /\ \E o \in CommandOps \cup {"read"} :
          /\ op' = o
          /\ IF o = "read"
             THEN /\ pc' = "read_from_device"
                  /\ fsm' = ReadStateMachine_new(ZeroBuffer(OUTPUT_FRAME_SIZE))
                  /\ cmd' = <<>>
             ELSE /\ pc' = "send_cmd"
                  /\ fsm' = fsm
                  /\ cmd' = CommandOf(o)
    /\ tx' = <<>>
    /\ status' = "None"
    /\ result' = NoResult
    /\ calls' = calls + 1
    /\ rx0' = rx
    /\ written' = "None"
    /\ UNCHANGED <<codec, resynced, testVars, rx, line, log>>

\* send_cmd writing on after a fault
send_cmd_ignores_fault ==
    /\ pc = "send_cmd"
    /\ \E w \in {"Ok", "WouldBlock", "Other"} :
          /\ written' = w
          /\ CASE w = "WouldBlock" ->
                   UNCHANGED <<tx, pc, result, fsm, log>>
              [] w = "Other" ->
                   UNCHANGED <<tx, pc, result, fsm, log>>
              [] w = "Ok" ->
                   /\ tx' = Append(tx, cmd[Len(tx) + 1])
                   /\ IF Len(tx') < Len(cmd)
                      THEN UNCHANGED <<pc, result, fsm, log>>
                      ELSE IF op \in ResponseOps
                           THEN /\ pc' = "read_from_device"
                                /\ fsm' = ReadStateMachine_new(
                                              ZeroBuffer(RESPONSE_FRAME_SIZE))
                                /\ UNCHANGED <<result, log>>
                           ELSE /\ pc' = "idle"
                                /\ result' = [tag |-> "Ok"]
                                /\ log' = Append(log, result')
                                /\ fsm' = fsm
    /\ UNCHANGED <<codec, status, resynced, testVars, op, cmd, rx, line,
                   calls, rx0>>

\* send_cmd (lib.rs:99-104), one serial.write: block! calls it again on
\* WouldBlock, a fault returns SendFailed, and after the last byte the
\* operation returns Ok or goes on to receive_response
send_cmd ==
    /\ pc = "send_cmd"
    /\ \E w \in {"Ok", "WouldBlock", "Other"} :
          /\ written' = w
          /\ CASE w = "WouldBlock" ->
                   UNCHANGED <<tx, pc, result, fsm, log>>
              [] w = "Other" ->
                   /\ result' = [tag |-> "Err", err |-> "SendFailed"]
                   /\ log' = Append(log, result')
                   /\ pc' = "idle"
                   /\ UNCHANGED <<tx, fsm>>
              [] w = "Ok" ->
                   /\ tx' = Append(tx, cmd[Len(tx) + 1])
                   /\ IF Len(tx') < Len(cmd)
                      THEN UNCHANGED <<pc, result, fsm, log>>
                      ELSE IF op \in ResponseOps
                           THEN /\ pc' = "read_from_device"
                                /\ fsm' = ReadStateMachine_new(
                                              ZeroBuffer(RESPONSE_FRAME_SIZE))
                                /\ UNCHANGED <<result, log>>
                           ELSE /\ pc' = "idle"
                                /\ result' = [tag |-> "Ok"]
                                /\ log' = Append(log, result')
                                /\ fsm' = fsm
    /\ UNCHANGED <<codec, status, resynced, testVars, op, cmd, rx, line,
                   calls, rx0>>

\* read_from_device (lib.rs:55-66), one turn of its loop: update on the
\* result of serial.read(), and the return once it reports Finished or
\* Failed
read_from_device ==
    /\ pc = "read_from_device"
    /\ status \in {"None", "InProgress"}
    /\ \E read \in SerialRead :
          /\ fsm' = update(fsm, read[1])
          /\ rx' = read[2]
    /\ resynced' = (/\ fsm.state = "WaitingForSecondMagicNumber"
                    /\ fsm'.state = "WaitingForFirstMagicNumber")
    /\ status' = IF fsm'.panicked THEN "Panicked" ELSE ReadStatus(fsm')
    /\ IF status' \in TerminalStates
       THEN /\ pc' = "idle"
            /\ result' = ReturnOf(op, fsm')
            /\ log' = Append(log, result')
       ELSE UNCHANGED <<pc, result, log>>
    /\ UNCHANGED <<codec, testVars, op, cmd, tx, line, calls, rx0, written>>

\* the active-mode acknowledgement as a device sends it: the literal of
\* lib.rs:19 behind the header of tests/integration.rs:23, which is the
\* header its checksum 0x0175 counts
WireActiveAck == [ACTIVE_MODE_RESPONSE EXCEPT ![2] = WIRE_HEADER2]

\* the telemetry frame of tests/integration.rs behind the header the reader
\* matches (MN1, MN2), with the checksum of its own bytes
CodeFrame ==
    LET body == [i \in 1..(OUTPUT_FRAME_SIZE - CHECKSUM_SIZE) |->
                    IF i = 2 THEN MN2 ELSE StatusFrame[i]]
        sum  == SumTake(body, OUTPUT_FRAME_SIZE - CHECKSUM_SIZE)
    IN  body \o <<sum \div 256, sum % 256>>

\* eight bytes that hold no header
NoAck == [i \in 1..RESPONSE_FRAME_SIZE |-> 0]

Okay(bytes) == [i \in 1..Len(bytes) |-> <<"Ok", bytes[i]>>]

\* what the device has delivered once the sensor is constructed: nothing,
\* each response literal of lib.rs:18-20, the acknowledgement behind the
\* wire header, eight bytes without a header, the telemetry frame of
\* tests/integration.rs once and twice, that frame after noise and a
\* fault, and that frame behind the header the reader matches
RxScripts ==
    LET okay(bytes) == Okay(bytes)
    IN  {<<>>,
         okay(SLEEP_RESPONSE), okay(PASSIVE_MODE_RESPONSE),
         okay(ACTIVE_MODE_RESPONSE),
         okay(WireActiveAck), okay(NoAck),
         okay(StatusFrame), okay(StatusFrame \o StatusFrame),
         okay(<<0, 0>>) \o <<<<"Err", "Other">>>> \o okay(StatusFrame),
         okay(CodeFrame), okay(CodeFrame \o ACTIVE_MODE_RESPONSE)}

InitSensor ==
    /\ codec = NoCall
    /\ fsm = NoMachine
    /\ status = "None"
    /\ fed = <<>>
    /\ past = <<>>
    /\ resynced = FALSE
    /\ op = "none"
    /\ pc = "idle"
    /\ cmd = <<>>
    /\ tx = <<>>
    /\ rx \in RxScripts
    /\ line = "script"
    /\ result = NoResult
    /\ calls = 0
    /\ rx0 = <<>>
    /\ written = "None"
    /\ log = <<>>

NextSensor == Call \/ send_cmd \/ read_from_device

SpecSensor == InitSensor /\ [][NextSensor]_vars

(***************************************************************************)
(* The constructor and the operations after it.  Pms7003Sensor::new        *)
(* (lib.rs:45-53), which new_tx_rx (lib.rs:195-206) calls on the wrapped   *)
(* halves, reads and discards until a read returns an error.  The          *)
(* transport either answers from what it holds, or is the RxMock of        *)
(* tests/separate_rx_tx.rs, whose read answers Ok(0) every time.  The      *)
(* constructor's loop has no other exit and nothing else runs while it     *)
(* does, so it is weakly fair.                                             *)
(***************************************************************************)

\* one turn of the loop of new (lib.rs:47-51)
new ==
    /\ pc = "new"
    /\ \E rd \in SerialRead :
          /\ rx' = rd[2]
          /\ pc' = IF IsOk(rd[1]) THEN "new" ELSE "idle"
    /\ UNCHANGED <<codec, fsm, status, resynced, testVars, op, cmd, tx,
                   line, result, calls, rx0, written, log>>

\* what the transport holds when the constructor is called: nothing, stale
\* bytes, stale bytes with a fault before a frame, and a whole frame
StaleScripts ==
    {<<>>, Okay(<<0, MN1>>), Okay(CodeFrame),
     Okay(<<0, 0>>) \o <<<<"Err", "Other">>>> \o Okay(CodeFrame),
     Okay(<<0>>) \o <<<<"Err", "WouldBlock">>>> \o Okay(SLEEP_RESPONSE)}

InitNew ==
    /\ codec = NoCall
    /\ fsm = NoMachine
    /\ status = "None"
    /\ fed = <<>>
    /\ past = <<>>
    /\ resynced = FALSE
    /\ op = "new"
    /\ pc = "new"
    /\ cmd = <<>>
    /\ tx = <<>>
    /\ line \in {"script", "zeros"}
    /\ rx \in IF line = "zeros" THEN {<<>>} ELSE StaleScripts
    /\ result = NoResult
    /\ calls = 0
    /\ rx0 = <<>>
    /\ written = "None"
    /\ log = <<>>

NextNew == new \/ Call \/ send_cmd \/ read_from_device

SpecNew == InitNew /\ [][NextNew]_vars /\ WF_vars(new)

(***************************************************************************)
(* One call of read_from_device on the 8-byte response buffer, over a      *)
(* transport that may answer each read with any result.  The loop has no   *)
(* exit but its two returns and nothing else runs, so it is weakly fair.   *)
(***************************************************************************)
InitRead ==
    /\ codec = NoCall
    /\ fsm = ReadStateMachine_new(ZeroBuffer(RESPONSE_FRAME_SIZE))
    /\ status = "None"
    /\ fed = <<>>
    /\ past = <<>>
    /\ resynced = FALSE
    /\ op = "read_from_device"
    /\ pc = "read_from_device"
    /\ cmd = <<>>
    /\ tx = <<>>
    /\ rx = <<>>
    /\ line = "any"
    /\ result = NoResult
    /\ calls = 1
    /\ rx0 = <<>>
    /\ written = "None"
    /\ log = <<>>

NextRead == read_from_device

SpecRead == InitRead /\ [][NextRead]_vars /\ WF_vars(read_from_device)

(***************************************************************************)
(* Properties of the codec, checked under SpecCodec.                       *)
(***************************************************************************)
CreatedCommand == codec.done /\ codec.call.fn = "create_command"

ParsedBuffer == codec.done /\ codec.call.fn = "from_buffer"

\* C1: the frame create_command returns carries in bytes 5..6, big-endian,
\* the sum of its bytes 0..4 modulo 65536, and its bytes 2, 3, 4 are the
\* opcode, the high byte of data and the low byte of data.
C1_CommandChecksum ==
    CreatedCommand =>
        LET f == codec.out
        IN  /\ Len(f) = 7
            /\ \A i \in 1..7 : f[i] \in 0..255
            /\ f[6] * 256 + f[7] = (f[1] + f[2] + f[3] + f[4] + f[5]) % 65536
            /\ f[3] = codec.call.cmd
            /\ f[4] = codec.call.data \div 256
            /\ f[5] = codec.call.data % 256

\* a command whose data bytes differ and whose checksum needs both bytes
C1_Witness ==
    /\ CreatedCommand
    /\ codec.call.cmd = 228
    /\ codec.call.data = 43981
    /\ codec.out[6] > 0

\* C3: from_buffer returns Ok exactly when the sum of bytes 0..29 modulo
\* 65536 equals the big-endian value of bytes 30..31, and otherwise
\* returns Error::ChecksumError with no decoded record.
C3_FromBufferIffChecksum ==
    ParsedBuffer =>
        LET b   == codec.call.buffer
            sum == SumTake(b, 30) % 65536
        IN  /\ (codec.out.tag = "Ok") <=> (sum = b[31] * 256 + b[32])
            /\ codec.out.tag = "Ok" => "frame" \in DOMAIN codec.out
            /\ codec.out.tag # "Ok" =>
                  codec.out = [tag |-> "Err", err |-> "ChecksumError"]

\* a buffer other than the base frames, with a changed byte and a checksum
\* changed to match, is accepted
C3_Witness ==
    /\ ParsedBuffer
    /\ codec.call.buffer \notin {StatusFrame, FullFrame}
    /\ codec.out.tag = "Ok"
    /\ codec.out.frame.check = 361

(***************************************************************************)
(* Properties of the sensor operations, checked under SpecSensor.          *)
(***************************************************************************)
\* the opcode and data the wire format gives each command
WireOpcode(o) == IF o \in {"sleep", "wake"} THEN 228
                 ELSE IF o = "request" THEN 226 ELSE 225

WireData(o) == IF o \in {"wake", "active"} THEN 1 ELSE 0

\* C2: every command frame that sleep, wake, passive, active and request
\* write to the transport starts with the header bytes 0x42 then 0x4D,
\* followed by the operation's opcode and data.
C2_CommandsStartWithWireHeader ==
    op \in CommandOps =>
        /\ Len(tx) >= 1 => tx[1] = WIRE_HEADER1
        /\ Len(tx) >= 2 => tx[2] = WIRE_HEADER2
        /\ Len(tx) >= 3 => tx[3] = WireOpcode(op)
        /\ Len(tx) >= 5 => tx[4] * 256 + tx[5] = WireData(op)

(***************************************************************************)
(* Properties of the state machine, checked under Spec.                    *)
(***************************************************************************)
\* the retry budget the machine was created with
Budget == IF past = <<>> THEN fsm.retries ELSE past[1].retries

\* the bytes of the successful reads among the results fed, in order
OkBytes == LET oks == SelectSeq(fed, IsOk) IN [i \in 1..Len(oks) |-> oks[i][2]]

\* the number of not-ready signals and faults among the results fed
Interruptions == Len(fed) - Len(OkBytes)

\* the machine after the i-th call of update
After(i) == IF i < Len(fed) THEN past[i + 1] ELSE fsm

\* C4: whenever the phase is Finished, buffer[0] is header byte 1 and
\* buffer[1] is header byte 2, whatever was fed before the header.
C4_FinishedHasHeader ==
    fsm.state = "Finished" => fsm.buffer[1] = MN1 /\ fsm.buffer[2] = MN2

\* Finished after a noise byte and a fault preceded the header
C4_Witness ==
    /\ fsm.state = "Finished"
    /\ Len(fed) >= 2
    /\ fed[1] = <<"Ok", 0>>
    /\ fed[2] = <<"Err", "Other">>

\* C5: n <= B noise bytes (none equal to header byte 1), then the header
\* bytes 0x42, 0x4D, then L-2 payload bytes end in Finished with the buffer
\* holding 0x42, 0x4D and the payload in arrival order (stated for targets
\* L > 2, which have a payload).
C5_NoiseThenFrameFinishes ==
    LET L == Len(fsm.buffer)
    IN  \A n \in 0..Len(fed) :
           (/\ L > 2
            /\ n <= Budget
            /\ Len(fed) = n + L
            /\ \A i \in 1..Len(fed) : IsOk(fed[i])
            /\ \A i \in 1..n : fed[i][2] # WIRE_HEADER1
            /\ fed[n + 1][2] = WIRE_HEADER1
            /\ fed[n + 2][2] = WIRE_HEADER2)
           => /\ fsm.state = "Finished"
              /\ fsm.buffer = <<WIRE_HEADER1, WIRE_HEADER2>>
                                \o [i \in 1..(L - 2) |-> fed[n + 2 + i][2]]

\* the results fed are the header bytes and at most L-2 payload bytes, with
\* at most B not-ready signals or faults between them
FrameWithInterruptions ==
    /\ Len(OkBytes) <= Len(fsm.buffer)
    /\ Len(OkBytes) >= 1 => OkBytes[1] = MN1
    /\ Len(OkBytes) >= 2 => OkBytes[2] = MN2
    /\ Interruptions <= Budget

\* C6: fed the header bytes and L-2 payload bytes with not-ready signals or
\* faults interleaved anywhere, no more of them than the retry budget, the
\* reader never reports Failed, and reports Finished on the last payload
\* byte (and not before), its buffer holding the bytes in order.
C6_InterruptionsTolerated ==
    FrameWithInterruptions =>
        /\ fsm.state # "Failed"
        /\ status \notin {"Failed", "Panicked"}
        /\ Len(OkBytes) < Len(fsm.buffer) => status \in {"None", "InProgress"}
        /\ (Len(OkBytes) = Len(fsm.buffer) /\ Len(fsm.buffer) > 2) =>
              /\ status = "Finished"
              /\ fsm.state = "Finished"
              /\ fsm.buffer = OkBytes

\* a frame completed on its last payload byte after as many interruptions
\* as the budget allows, one of them while collecting
C6_Witness ==
    /\ FrameWithInterruptions
    /\ Budget = 2
    /\ Interruptions = 2
    /\ Len(OkBytes) = Len(fsm.buffer)
    /\ IsOk(fed[Len(fed)])
    /\ ~IsOk(fed[Len(fed) - 1])
    /\ status = "Finished"

\* an input that consumes a retry: a not-ready signal or fault in any phase
\* in progress, or a byte other than header byte 1 while awaiting it
ConsumesRetry(m, read_result) ==
    /\ m.state \in InProgressStates
    /\ \/ ~IsOk(read_result)
       \/ m.state = "WaitingForFirstMagicNumber" /\ read_result[2] # MN1

\* how many of the first k inputs consumed a retry
ConsumedUpTo(k) ==
    Cardinality({i \in 1..k : ConsumesRetry(past[i], fed[i])})

\* C7: with budget B the reader is Failed exactly when B+1 retry-consuming
\* inputs have been fed: it enters Failed on the (B+1)-th of them, with the
\* budget already at zero, and on no earlier input.
C7_FailedExactlyAfterBudget ==
    /\ ConsumedUpTo(Len(fed)) <= Budget + 1
    /\ (fsm.state = "Failed") <=> (ConsumedUpTo(Len(fed)) = Budget + 1)
    /\ \A i \in 1..Len(fed) :
          (past[i].state # "Failed" /\ After(i).state = "Failed") =>
              /\ past[i].retries = 0
              /\ ConsumesRetry(past[i], fed[i])
              /\ ConsumedUpTo(i) = Budget + 1

\* a budget of 2 used up while collecting, after the header was matched
C7_Witness ==
    /\ fsm.state = "Failed"
    /\ Budget = 2
    /\ fsm.index = 2
    /\ status = "Failed"

\* C9: once the machine is Finished or Failed, a further update with any
\* input returns the same status and leaves the machine (buffer, cursor,
\* retry budget, phase) as it was.
C9_TerminalStatesAbsorb ==
    (fed # <<>> /\ past[Len(past)].state \in TerminalStates) =>
        /\ fsm = past[Len(past)]
        /\ status = past[Len(past)].state

\* update called with a fault on a Finished machine that has retries left
C9_Witness ==
    /\ fed # <<>>
    /\ past[Len(past)].state = "Finished"
    /\ past[Len(past)].retries > 0
    /\ ~IsOk(fed[Len(fed)])

\* C10: while awaiting header byte 2, a byte equal to header byte 2 moves
\* the reader to Reading with buffer[0..2] the header bytes and cursor 2; a
\* byte equal to header byte 1, or any other byte, moves it back to
\* awaiting header byte 1 and leaves the retry budget alone; a not-ready
\* signal or fault keeps the phase and consumes one retry.
C10_AwaitingSecondHeader ==
    (fed # <<>> /\ past[Len(past)].state = "WaitingForSecondMagicNumber") =>
        LET m == past[Len(past)]
            r == fed[Len(fed)]
        IN  /\ (IsOk(r) /\ r[2] = MN2) =>
                  /\ fsm.state = "Reading"
                  /\ fsm.buffer[1] = MN1 /\ fsm.buffer[2] = MN2
                  /\ fsm.index = 2
            /\ (IsOk(r) /\ (r[2] = MN1 \/ r[2] # MN2)) =>
                  /\ fsm.state = "WaitingForFirstMagicNumber"
                  /\ fsm.retries = m.retries
            /\ ~IsOk(r) =>
                  /\ m.retries > 0 =>
                        /\ fsm.state = "WaitingForSecondMagicNumber"
                        /\ fsm.retries = m.retries - 1
                  /\ m.retries = 0 => fsm.state = "Failed"

(***************************************************************************)
(* Properties of the read loop, checked under SpecRead.                    *)
(***************************************************************************)
\* C8 as claimed: every run of the loop of read_from_device reaches Finished
\* or Failed.
C8_ReadAlwaysTerminates == <>(status \in TerminalStates)

\* C8 as amended: the loop reaches Finished or Failed unless the stream
\* makes it fall back from awaiting the second header byte to awaiting the
\* first again and again, for ever.
C8_ReadTerminatesUnlessResyncing ==
    ([]<>resynced) \/ <>(status \in TerminalStates)

\* the loop ended Failed on a stream that never showed a header
C8_Witness ==
    /\ status = "Failed"
    /\ fsm.state = "Failed"
    /\ fsm.index = 0
    /\ ~resynced

(***************************************************************************)
(* Properties of the acknowledged commands, checked under SpecSensor.      *)
(***************************************************************************)
\* the bytes the transport held when the operation was called, when it
\* held only bytes
Delivered == [i \in 1..Len(rx0) |-> rx0[i][2]]

OnlyBytes(q) == \A i \in 1..Len(q) : IsOk(q[i])

\* the operation wrote its whole command and has returned
SentAndReturned ==
    /\ op \in CommandOps
    /\ pc = "idle"
    /\ tx = cmd
    /\ Len(tx) = CMD_FRAME_SIZE

\* sleep, passive or active has returned after the device answered its
\* command with eight bytes and nothing more
AckOfEightReturned ==
    /\ SentAndReturned
    /\ op \in ResponseOps
    /\ Len(rx0) = RESPONSE_FRAME_SIZE
    /\ OnlyBytes(rx0)

C12_SilenceIsNoResponse ==
    (SentAndReturned /\ op \in ResponseOps /\ rx0 = <<>>) =>
        result = [tag |-> "Err", err |-> "NoResponse"]

\* what the operation has written is the start of its command
WrittenInOrder ==
    /\ cmd = CommandOf(op)
    /\ Len(tx) <= Len(cmd)
    /\ \A i \in 1..Len(tx) : tx[i] = cmd[i]

\* the operation has read from the transport
HasRead == status # "None" \/ pc = "read_from_device" \/ rx # rx0

\* C13: sleep, passive and active request no byte from the transport until
\* all 7 command bytes are written, successfully and in order; when a write
\* faults the operation returns SendFailed at once, having written no
\* further byte and performed no read.
C13_WritesBeforeReads ==
    op \in ResponseOps =>
        /\ WrittenInOrder
        /\ HasRead => (tx = cmd /\ Len(tx) = CMD_FRAME_SIZE)
        /\ written = "Other" =>
              /\ pc = "idle"
              /\ result = [tag |-> "Err", err |-> "SendFailed"]
              /\ Len(tx) < CMD_FRAME_SIZE
              /\ ~HasRead
        /\ result = [tag |-> "Err", err |-> "SendFailed"] => written = "Other"

\* sleep has returned SendFailed after three bytes, with an acknowledgement
\* waiting unread
C13_Witness ==
    /\ op = "sleep"
    /\ written = "Other"
    /\ Len(tx) = 3
    /\ pc = "idle"
    /\ result = [tag |-> "Err", err |-> "SendFailed"]
    /\ rx = Okay(SLEEP_RESPONSE)

\* C14: wake and request only send: they write exactly the 7 command bytes,
\* read nothing, return Ok whenever all writes succeed, and leave what the
\* transport holds unconsumed.
C14_WakeAndRequestOnlySend ==
    op \in {"wake", "request"} =>
        /\ WrittenInOrder
        /\ ~HasRead
        /\ pc = "idle" =>
              \/ /\ written = "Ok"
                 /\ tx = cmd
                 /\ Len(tx) = CMD_FRAME_SIZE
                 /\ result = [tag |-> "Ok"]
              \/ /\ written = "Other"
                 /\ result = [tag |-> "Err", err |-> "SendFailed"]

\* request has returned Ok with a telemetry frame left in the transport
C14_Witness ==
    /\ op = "request"
    /\ SentAndReturned
    /\ result = [tag |-> "Ok"]
    /\ rx = Okay(CodeFrame)
    /\ rx0 = rx

\* q is one or more whole frames as the device sends them, each starting
\* 0x42 0x4D and carrying the checksum of its own bytes
WireFrames(q) ==
    /\ q # <<>>
    /\ OnlyBytes(q)
    /\ Len(q) % OUTPUT_FRAME_SIZE = 0
    /\ \A k \in 0..((Len(q) \div OUTPUT_FRAME_SIZE) - 1) :
          LET f == [i \in 1..OUTPUT_FRAME_SIZE |->
                       q[k * OUTPUT_FRAME_SIZE + i][2]]
          IN  /\ f[1] = WIRE_HEADER1
              /\ f[2] = WIRE_HEADER2
              /\ SumTake(f, OUTPUT_FRAME_SIZE - CHECKSUM_SIZE)
                    = f[OUTPUT_FRAME_SIZE - 1] * 256 + f[OUTPUT_FRAME_SIZE]

\* C15: when the transport delivers k whole valid frames back to back and
\* then nothing, k consecutive calls of read return Ok, each consuming
\* exactly the bytes of one frame, and the call after them returns an
\* error: a read called on one or more frames returns Ok and leaves the
\* frames behind the first, and a read called on nothing returns an error.
C15_FramesReadInTurn ==
    (op = "read" /\ pc = "idle") =>
        /\ WireFrames(rx0) =>
              /\ result.tag = "Ok"
              /\ rx = SubSeq(rx0, OUTPUT_FRAME_SIZE + 1, Len(rx0))
        /\ rx0 = <<>> => result.tag = "Err"

(***************************************************************************)
(* Properties of the constructor, checked under SpecNew.                   *)
(***************************************************************************)
\* C16: over a receive half whose read always answers Ok(0) the
\* constructor returns (and the sleep that follows returns Ok).
C16_MockSensorIsConstructed == (line = "zeros") => <>(pc # "new")

(***************************************************************************)
(* Properties of the retry budget and the cursor, checked under Spec.      *)
(***************************************************************************)
\* C17: within one read attempt the retry budget never increases: each
\* retry-consuming input takes exactly one from it while any is left,
\* every other input leaves it as it is, and no change of phase resets it.
C17_BudgetOnlyDecrements ==
    \A i \in 1..Len(fed) :
        After(i).retries =
            IF ConsumesRetry(past[i], fed[i]) /\ past[i].retries > 0
            THEN past[i].retries - 1
            ELSE past[i].retries

\* the budget of 2 was spent one retry awaiting the header and one while
\* collecting, and the machine is still collecting
C17_Witness ==
    /\ Budget = 2
    /\ fsm.retries = 0
    /\ fsm.state = "Reading"
    /\ \E i, j \in 1..Len(fed) :
          /\ past[i].state = "WaitingForFirstMagicNumber"
          /\ ConsumesRetry(past[i], fed[i])
          /\ past[j].state = "Reading"
          /\ ConsumesRetry(past[j], fed[j])

\* C18: while collecting with retries left, a not-ready signal or a fault
\* leaves the buffer, the cursor and the phase as they are and only takes
\* one from the retry budget.
C18_InterruptionKeepsProgress ==
    \A i \in 1..Len(fed) :
        (/\ past[i].state = "Reading"
         /\ past[i].retries > 0
         /\ ~IsOk(fed[i]))
        => After(i) = [past[i] EXCEPT !.retries = @ - 1]

\* a fault has just reached a machine that had collected a byte behind the
\* header
C18_Witness ==
    /\ fed # <<>>
    /\ fed[Len(fed)] = <<"Err", "Other">>
    /\ past[Len(past)].state = "Reading"
    /\ past[Len(past)].retries > 0
    /\ fsm.state = "Reading"
    /\ fsm.index = 3

(***************************************************************************)
(* Properties of the read attempts, checked under SpecSensor.              *)
(***************************************************************************)
\* C19: every read attempt of the driver, the one of each read and the one
\* of each acknowledged command, starts from a new machine: awaiting the
\* first header byte, cursor 0, the full budget of 100, whatever the
\* operations before it returned.
C19_AttemptStartsFresh ==
    (pc = "read_from_device" /\ status = "None") =>
        /\ fsm.state = "WaitingForFirstMagicNumber"
        /\ fsm.index = 0
        /\ fsm.retries = 100
        /\ ~fsm.panicked
        /\ Len(fsm.buffer) = IF op = "read" THEN OUTPUT_FRAME_SIZE
                                            ELSE RESPONSE_FRAME_SIZE

\* a read starts after a read that ran out of retries
C19_Witness ==
    /\ pc = "read_from_device"
    /\ status = "None"
    /\ op = "read"
    /\ calls = 2
    /\ log = <<[tag |-> "Err", err |-> "ReadFailed"]>>
    /\ fsm.retries = NEW_RETRIES

(***************************************************************************)
(* The cursor and the end of the buffer, checked under Spec.               *)
(***************************************************************************)
\* C20: for every buffer length L >= 2 and every input the reader never
\* writes at an index >= L: while collecting, 2 <= cursor < L, and the
\* cursor never exceeds L; in particular a reader whose buffer holds just
\* the 2 header bytes does not write past it once the header is matched.
C20_CursorInsideBuffer ==
    /\ ~fsm.panicked
    /\ fsm.index <= Len(fsm.buffer)
    /\ fsm.state = "Reading" =>
          (2 <= fsm.index /\ fsm.index < Len(fsm.buffer))

=============================================================================
